---- MODULE Spec2Model ----
(***************************************************************************)
(* A model of tensorflow/compiler/xla/python/py_executable.cc: the         *)
(* intrusive registry of live PyExecutable objects rooted at a PyClient,   *)
(* the three execution entry points with their GIL release scope, and the  *)
(* two read-only accessors.                                                *)
(***************************************************************************)
EXTENDS Integers, Sequences, FiniteSets, TLC

\* ------------------------------------------------------------- bounds

\* Number of distinct PyExecutable addresses (an address is reused after
\* the object at it was destroyed).
MaxExecs == 3
\* Longest argument list of one computation.
MaxArgs == 2
\* Most computations in one ExecuteOnLocalDevices call.
MaxComp == 2
\* Most execution calls started in one behaviour (caps the traceback counter).
MaxCalls == 2

\* ------------------------------------------------------------- values

Threads == {"t1", "t2"}
Clients == {"c1", "c2"}
Execs == 1..MaxExecs
\* nullptr
Null == 0
\* No thread holds the GIL.
NoThread == "none"
\* Native device buffers (PjRtBuffer) and the PyBuffer handles callers pass.
Natives == {"n1", "n2"}
Handles == {"h1", "h2"}
\* Status codes the engine can fail with.
ErrCodes == {"INTERNAL", "INVALID_ARGUMENT"}
OkStatus == "OK"

BoundedSeq(S, n) == UNION {[1..k -> S] : k \in 0..n}

VARIABLES
  executables_,   \* PyClient::executables_ : head of each client's list
  live,           \* the PyExecutable objects constructed and not yet destroyed
  client_,        \* PyExecutable::client_
  next_,          \* PyExecutable::next_
  prev_,          \* PyExecutable::prev_
  fingerprint_,   \* PyExecutable::fingerprint_
  options_,       \* PyExecutable::options_
  registered,     \* history: per client, its live executables in creation order
  gil,            \* the thread holding the GIL, or NoThread
  aborted,        \* a CHECK failed: the process is gone
  frame,          \* per thread: the call it is in and that call's locals
  tbCount         \* number of Traceback::Get() calls so far

registry == <<executables_, live, client_, next_, prev_>>
vars == <<executables_, live, client_, next_, prev_, fingerprint_, options_,
          registered, gil, aborted, frame, tbCount>>

\* ------------------------------------------------------------- helpers

RECURSIVE Reverse(_)
Reverse(s) == IF s = <<>> THEN <<>> ELSE Append(Reverse(Tail(s)), Head(s))

RECURSIVE Without(_, _)
\* s with every occurrence of x removed, order kept.
Without(s, x) ==
  IF s = <<>> THEN <<>>
  ELSE IF Head(s) = x THEN Without(Tail(s), x)
       ELSE <<Head(s)>> \o Without(Tail(s), x)

Range(s) == {s[i] : i \in DOMAIN s}
NoDuplicates(s) == \A i, j \in DOMAIN s : s[i] = s[j] => i = j

\* ------------------------------------------------------------- values of fields

NoClient == "none"
\* absl::optional<std::string>: fingerprints are byte strings.
NoFingerprint == [has |-> FALSE, value |-> <<>>]
SomeFingerprint(bytes) == [has |-> TRUE, value |-> bytes]
FingerprintStrings == {<<97>>, <<97, 98>>}
Fingerprints == {NoFingerprint} \cup {SomeFingerprint(b) : b \in FingerprintStrings}

\* A 32-bit unsigned value is kept as two 16-bit limbs <<high, low>>.
Two16 == 65536
Word32(high, low) == <<high % Two16, low % Two16>>

\* launch_id of a default-constructed ExecuteOptions.
DefaultLaunchId == Word32(0, 0)
DefaultOptions == [untuple_result |-> FALSE, launch_id |-> DefaultLaunchId]

RECURSIVE HashBytes(_, _)
\* h * 31 + byte, modulo 2^32, over the bytes in order.
HashBytes(bytes, h) ==
  IF bytes = <<>> THEN h
  ELSE LET low == h[2] * 31 + Head(bytes)
           high == h[1] * 31 + (low \div Two16)
       IN  HashBytes(Tail(bytes), Word32(high, low))
\* tensorflow::Fingerprint32: a stable 32-bit hash of the bytes.
Fingerprint32(bytes) == HashBytes(bytes, Word32(33052, 40389))

\* Local devices of a compiled program, as the engine lists them.
LocalDeviceList == <<"d0", "d1">>

\* PyBuffer::buffer(): the native buffer a handle wraps.
buffer(h) == IF h = "h1" THEN "n1" ELSE "n2"

\* std::make_unique<PyBuffer>(client, buffer, traceback)
PyBuffer(client, buf, traceback) ==
  [client |-> client, buffer |-> buf, traceback |-> traceback]

NoTraceback == Null

\* The engine has not answered yet.
Pending == "pending"

\* A thread outside every call. A frame holds the call's locals and its
\* result (status, outputs); "at" keeps, for a destructor, where in the list
\* the object was, engine_status what the engine answered, and
\* output_buffers stays as the engine returned it after its elements moved.
IdleFrame ==
  [pc |-> "idle", kind |-> "none", self |-> Null, at |-> "none", args |-> <<>>,
   arg_buffers |-> <<>>, engine_status |-> Pending, output_buffers |-> <<>>,
   traceback |-> NoTraceback, status |-> OkStatus, outputs |-> <<>>]

\* ------------------------------------------------------------- the GIL

\* A check that passes on every thread.
PyGILState_Check_Skipped(t) == TRUE

\* PyGILState_Check() on thread t.
PyGILState_Check(t) == gil = t

\* A scope that releases nothing.
GilScopedRelease_Keeps(t) == gil

\* py::gil_scoped_release's constructor: the GIL after thread t entered the scope.
GilScopedRelease(t) == NoThread

\* The interpreter hands the free GIL to a thread that is running no call.
GilAcquire(t) ==
  /\ ~aborted
  /\ frame[t].pc = "idle"
  /\ gil = NoThread
  /\ gil' = t
  /\ UNCHANGED <<registry, fingerprint_, options_, registered, aborted, frame, tbCount>>

\* The interpreter switches away from a thread between two calls.
GilYield(t) ==
  /\ ~aborted
  /\ frame[t].pc = "idle"
  /\ gil = t
  /\ gil' = NoThread
  /\ UNCHANGED <<registry, fingerprint_, options_, registered, aborted, frame, tbCount>>

\* ------------------------------------------------------------- the registry

\* RegisterLinks with one head pointer for all clients.
RegisterLinks_SharedHead(self, client) ==
  LET next == executables_[client]
      prev1 == [prev_ EXCEPT ![self] = Null]
  IN  [executables_ |-> [c \in Clients |-> self],
       next_ |-> [next_ EXCEPT ![self] = next],
       prev_ |-> IF next # Null THEN [prev1 EXCEPT ![next] = self] ELSE prev1]

\* RegisterLinks inserting behind the head instead of at it.
RegisterLinks_BehindHead(self, client) ==
  LET head == executables_[client]
      second == IF head = Null THEN Null ELSE next_[head]
      next1 == [next_ EXCEPT ![self] = second]
      prev1 == [prev_ EXCEPT ![self] = head]
  IN  IF head = Null
      THEN [executables_ |-> [executables_ EXCEPT ![client] = self],
            next_ |-> next1, prev_ |-> prev1]
      ELSE [executables_ |-> executables_,
            next_ |-> [next1 EXCEPT ![head] = self],
            prev_ |-> IF second # Null THEN [prev1 EXCEPT ![second] = self] ELSE prev1]

\* RegisterLinks without next_->prev_ = this.
RegisterLinks_NoBackLink(self, client) ==
  [executables_ |-> [executables_ EXCEPT ![client] = self],
   next_ |-> [next_ EXCEPT ![self] = executables_[client]],
   prev_ |-> [prev_ EXCEPT ![self] = Null]]

\* The three link assignments of the constructor.
RegisterLinks(self, client) ==
  LET next == executables_[client]
      prev1 == [prev_ EXCEPT ![self] = Null]
  IN  [executables_ |-> [executables_ EXCEPT ![client] = self],
       next_ |-> [next_ EXCEPT ![self] = next],
       prev_ |-> IF next # Null THEN [prev1 EXCEPT ![next] = self] ELSE prev1]

\* DeriveOptions mixing the number of live executables into the hash.
DeriveOptions_SaltedByRegistry(fingerprint) ==
  LET o1 == [DefaultOptions EXCEPT !.untuple_result = TRUE]
      h == Fingerprint32(fingerprint.value)
  IN  IF fingerprint.has
      THEN [o1 EXCEPT !.launch_id = Word32(h[1], h[2] + Cardinality(live))]
      ELSE o1

\* DeriveOptions setting untuple_result inside the fingerprint branch.
DeriveOptions_UntupleOnlyWithFingerprint(fingerprint) ==
  IF fingerprint.has
  THEN [DefaultOptions EXCEPT !.untuple_result = TRUE,
                              !.launch_id = Fingerprint32(fingerprint.value)]
  ELSE DefaultOptions

\* options_ as the constructor leaves it.
DeriveOptions(fingerprint) ==
  LET o1 == [DefaultOptions EXCEPT !.untuple_result = TRUE]
  IN  IF fingerprint.has
      THEN [o1 EXCEPT !.launch_id = Fingerprint32(fingerprint.value)]
      ELSE o1

\* UnregisterLinks without next_->prev_ = prev_.
UnregisterLinks_NoBackRepair(self) ==
  LET c == client_[self]
  IN  [executables_ |-> IF executables_[c] = self
                        THEN [executables_ EXCEPT ![c] = next_[self]]
                        ELSE executables_,
       next_ |-> IF prev_[self] # Null
                 THEN [next_ EXCEPT ![prev_[self]] = next_[self]]
                 ELSE next_,
       prev_ |-> prev_]

\* UnregisterLinks without the head pointer's update.
UnregisterLinks_NoHeadUpdate(self) ==
  [executables_ |-> executables_,
   next_ |-> IF prev_[self] # Null
             THEN [next_ EXCEPT ![prev_[self]] = next_[self]]
             ELSE next_,
   prev_ |-> IF next_[self] # Null
             THEN [prev_ EXCEPT ![next_[self]] = prev_[self]]
             ELSE prev_]

\* The three link repairs of the destructor.
UnregisterLinks(self) ==
  LET c == client_[self]
  IN  [executables_ |-> IF executables_[c] = self
                        THEN [executables_ EXCEPT ![c] = next_[self]]
                        ELSE executables_,
       next_ |-> IF prev_[self] # Null
                 THEN [next_ EXCEPT ![prev_[self]] = next_[self]]
                 ELSE next_,
       prev_ |-> IF next_[self] # Null
                 THEN [prev_ EXCEPT ![next_[self]] = prev_[self]]
                 ELSE prev_]

\* Where a registered object sits in its client's list.
Position(self) ==
  IF prev_[self] = Null
  THEN (IF next_[self] = Null THEN "only" ELSE "head")
  ELSE (IF next_[self] = Null THEN "tail" ELSE "middle")

\* PyExecutable::PyExecutable on thread t, the new object at address self.
PyExecutable_ctor(t, self, client, fingerprint) ==
  /\ ~aborted
  /\ frame[t].pc = "idle"
  /\ self \notin live
  /\ \/ /\ ~PyGILState_Check(t)
        /\ aborted' = TRUE
        /\ UNCHANGED <<registry, fingerprint_, options_, registered, gil, frame, tbCount>>
     \/ /\ PyGILState_Check(t)
        /\ LET r == RegisterLinks(self, client)
           IN  /\ executables_' = r.executables_
               /\ next_' = r.next_
               /\ prev_' = r.prev_
        /\ client_' = [client_ EXCEPT ![self] = client]
        /\ live' = live \cup {self}
        /\ fingerprint_' = [fingerprint_ EXCEPT ![self] = fingerprint]
        /\ options_' = [options_ EXCEPT ![self] = DeriveOptions(fingerprint)]
        /\ registered' = [registered EXCEPT ![client] = Append(@, self)]
        /\ frame' = [frame EXCEPT ![t] =
             [IdleFrame EXCEPT !.pc = "returned", !.kind = "ctor", !.self = self]]
        /\ UNCHANGED <<gil, aborted, tbCount>>

\* PyExecutable::~PyExecutable on thread t. The object is destroyed once, by
\* its last owner: no call on it is in progress. Its storage is released, so
\* its own fields end as unset. The frame keeps where the object was.
PyExecutable_dtor(t, self) ==
  /\ ~aborted
  /\ frame[t].pc = "idle"
  /\ self \in live
  /\ \A u \in Threads : frame[u].self = self => frame[u].kind = "dtor"
  /\ \/ /\ ~PyGILState_Check(t)
        /\ aborted' = TRUE
        /\ UNCHANGED <<registry, fingerprint_, options_, registered, gil, frame, tbCount>>
     \/ /\ PyGILState_Check(t)
        /\ LET r == UnregisterLinks(self)
           IN  /\ executables_' = r.executables_
               /\ next_' = [r.next_ EXCEPT ![self] = Null]
               /\ prev_' = [r.prev_ EXCEPT ![self] = Null]
        /\ client_' = [client_ EXCEPT ![self] = NoClient]
        /\ live' = live \ {self}
        /\ fingerprint_' = [fingerprint_ EXCEPT ![self] = NoFingerprint]
        /\ options_' = [options_ EXCEPT ![self] = DefaultOptions]
        /\ registered' = [registered EXCEPT ![client_[self]] = Without(@, self)]
        /\ frame' = [frame EXCEPT ![t] =
             [IdleFrame EXCEPT !.pc = "returned", !.kind = "dtor", !.self = self,
                               !.at = Position(self)]]
        /\ UNCHANGED <<gil, aborted, tbCount>>

\* ------------------------------------------------------------- the engine

\* What a compiled program computes from one computation's arguments.
Programs == {"echo", "tail"}
RunProgram(program, bufs) ==
  IF program = "tail" /\ bufs # <<>> THEN Tail(bufs) ELSE bufs

\* PjRtExecutable::Execute: the native outputs of a run that succeeds.
EngineExecute(program, arg_buffers) == RunProgram(program, arg_buffers)

\* PjRtExecutable::ExecuteOnLocalDevices: one output group per computation.
EngineExecuteOnLocalDevices(program, arg_buffers) ==
  [c \in DOMAIN arg_buffers |-> RunProgram(program, arg_buffers[c])]

\* ------------------------------------------------------------- execution

\* ExtractNative passing a handle that occurs twice only once.
ExtractNative_Deduplicated(handles) ==
  LET upto[i \in 0..Len(handles)] ==
        IF i = 0 THEN <<>>
        ELSE IF \E j \in 1..(i - 1) : handles[j] = handles[i]
             THEN upto[i - 1]
             ELSE Append(upto[i - 1], buffer(handles[i]))
  IN  upto[Len(handles)]

\* The Buffer Bridge: absl::c_transform(args, ..., buf->buffer()).
ExtractNative(handles) == [i \in DOMAIN handles |-> buffer(handles[i])]

\* The per-computation loop of ExecuteOnLocalDevices over ExtractNative.
ExtractNativeNested(args) == [c \in DOMAIN args |-> ExtractNative(args[c])]

\* WrapOutputs moving client_ into the first handle: the later ones get none.
WrapOutputs_ClientMovedFrom(client, output_buffers, traceback) ==
  [i \in DOMAIN output_buffers |->
     PyBuffer(IF i = 1 THEN client ELSE NoClient, output_buffers[i], traceback)]

\* WrapOutputs filling the result back to front.
WrapOutputs_Reversed(client, output_buffers, traceback) ==
  [i \in DOMAIN output_buffers |->
     PyBuffer(client, output_buffers[Len(output_buffers) + 1 - i], traceback)]

\* WrapOutputs with a traceback of its own for every output.
WrapOutputs_TracebackPerOutput(client, output_buffers, traceback) ==
  [i \in DOMAIN output_buffers |-> PyBuffer(client, output_buffers[i], traceback + i - 1)]

\* The output loop of PjRtExecute and Execute.
WrapOutputs(client, output_buffers, traceback) ==
  [i \in DOMAIN output_buffers |-> PyBuffer(client, output_buffers[i], traceback)]

\* WrapOutputsNested dropping the groups that are empty.
WrapOutputsNested_SkipsEmpty(client, output_buffers, traceback) ==
  LET kept == SelectSeq(output_buffers, LAMBDA g : g # <<>>)
  IN  [c \in DOMAIN kept |->
         [i \in DOMAIN kept[c] |-> PyBuffer(client, kept[c][i], traceback)]]

\* The nested output loop of ExecuteOnLocalDevices.
WrapOutputsNested(client, output_buffers, traceback) ==
  [c \in DOMAIN output_buffers |->
     WrapOutputs(client, output_buffers[c], traceback)]

\* Traceback::Get(): a fresh token.
TracebackGet == tbCount + 1

\* A scope exit that goes on to the traceback whatever the status.
AfterScopeExit_IgnoresStatus(status) == "traceback"

\* Where TF_ASSIGN_OR_RETURN sends control once the release scope is left:
\* on to the traceback, or back to the caller with the engine's status.
AfterScopeExit(status) == IF status = OkStatus THEN "traceback" ELSE "returned"

ExecKinds == {"PjRtExecute", "Execute", "ExecuteOnLocalDevices"}

\* PjRtExecute up to the engine call: the arguments are native already.
PjRtExecute_Call(t, self, args) ==
  /\ ~aborted
  /\ frame[t].pc = "idle"
  /\ gil = t
  /\ self \in live
  /\ tbCount < MaxCalls
  /\ gil' = GilScopedRelease(t)
  /\ frame' = [frame EXCEPT ![t] =
       [IdleFrame EXCEPT !.pc = "engine", !.kind = "PjRtExecute", !.self = self,
                         !.args = args, !.arg_buffers = args]]
  /\ UNCHANGED <<registry, fingerprint_, options_, registered, aborted, tbCount>>

\* Execute up to the conversion: the release scope is entered first.
Execute_Call(t, self, args) ==
  /\ ~aborted
  /\ frame[t].pc = "idle"
  /\ gil = t
  /\ self \in live
  /\ tbCount < MaxCalls
  /\ gil' = GilScopedRelease(t)
  /\ frame' = [frame EXCEPT ![t] =
       [IdleFrame EXCEPT !.pc = "convert", !.kind = "Execute", !.self = self,
                         !.args = args]]
  /\ UNCHANGED <<registry, fingerprint_, options_, registered, aborted, tbCount>>

\* ExecuteOnLocalDevices up to the conversion.
ExecuteOnLocalDevices_Call(t, self, args) ==
  /\ ~aborted
  /\ frame[t].pc = "idle"
  /\ gil = t
  /\ self \in live
  /\ tbCount < MaxCalls
  /\ gil' = GilScopedRelease(t)
  /\ frame' = [frame EXCEPT ![t] =
       [IdleFrame EXCEPT !.pc = "convert", !.kind = "ExecuteOnLocalDevices",
                         !.self = self, !.args = args]]
  /\ UNCHANGED <<registry, fingerprint_, options_, registered, aborted, tbCount>>

\* The conversion of the handles, inside the release scope.
Convert(t) ==
  /\ ~aborted
  /\ frame[t].pc = "convert"
  /\ frame' = [frame EXCEPT ![t].pc = "engine",
                            ![t].arg_buffers =
                               IF frame[t].kind = "ExecuteOnLocalDevices"
                               THEN ExtractNativeNested(frame[t].args)
                               ELSE ExtractNative(frame[t].args)]
  /\ UNCHANGED <<registry, fingerprint_, options_, registered, gil, aborted, tbCount>>

\* The engine call returns its outputs.
EngineSucceeds(t, program) ==
  /\ ~aborted
  /\ frame[t].pc = "engine"
  /\ frame' = [frame EXCEPT ![t].pc = "scope_exit",
                            ![t].engine_status = OkStatus,
                            ![t].output_buffers =
                               IF frame[t].kind = "ExecuteOnLocalDevices"
                               THEN EngineExecuteOnLocalDevices(program, frame[t].arg_buffers)
                               ELSE EngineExecute(program, frame[t].arg_buffers)]
  /\ UNCHANGED <<registry, fingerprint_, options_, registered, gil, aborted, tbCount>>

\* The engine call returns an error.
EngineFails(t, code) ==
  /\ ~aborted
  /\ frame[t].pc = "engine"
  /\ frame' = [frame EXCEPT ![t].pc = "scope_exit", ![t].engine_status = code]
  /\ UNCHANGED <<registry, fingerprint_, options_, registered, gil, aborted, tbCount>>

\* A scope exit that does not wait for the GIL to be free.
ScopeExit_DoesNotWait(t) ==
  /\ ~aborted
  /\ frame[t].pc = "scope_exit"
  /\ gil' = t
  /\ frame' = [frame EXCEPT ![t].pc = AfterScopeExit(frame[t].engine_status),
                            ![t].status = frame[t].engine_status]
  /\ UNCHANGED <<registry, fingerprint_, options_, registered, aborted, tbCount>>

\* A scope exit that takes the GIL back on the normal exit only: the early
\* return leaves with the GIL as it is.
ScopeExit_EarlyReturnSkipsAcquire(t) ==
  /\ ~aborted
  /\ frame[t].pc = "scope_exit"
  /\ gil = NoThread
  /\ gil' = IF frame[t].engine_status = OkStatus THEN t ELSE gil
  /\ frame' = [frame EXCEPT ![t].pc = AfterScopeExit(frame[t].engine_status),
                            ![t].status = frame[t].engine_status]
  /\ UNCHANGED <<registry, fingerprint_, options_, registered, aborted, tbCount>>

\* py::gil_scoped_release's destructor: the thread waits for the GIL and
\* takes it, on the normal exit and on the early return alike.
ScopeExit(t) ==
  /\ ~aborted
  /\ frame[t].pc = "scope_exit"
  /\ gil = NoThread
  /\ gil' = t
  /\ frame' = [frame EXCEPT ![t].pc = AfterScopeExit(frame[t].engine_status),
                            ![t].status = frame[t].engine_status]
  /\ UNCHANGED <<registry, fingerprint_, options_, registered, aborted, tbCount>>

\* auto traceback = Traceback::Get();
CaptureTraceback(t) ==
  /\ ~aborted
  /\ frame[t].pc = "traceback"
  /\ frame' = [frame EXCEPT ![t].pc = "wrap", ![t].traceback = TracebackGet]
  /\ tbCount' = tbCount + 1
  /\ UNCHANGED <<registry, fingerprint_, options_, registered, gil, aborted>>

\* The output loop: every native output becomes a PyBuffer.
Wrap(t) ==
  /\ ~aborted
  /\ frame[t].pc = "wrap"
  /\ frame' = [frame EXCEPT ![t].pc = "returned",
                            ![t].outputs =
                               IF frame[t].kind = "ExecuteOnLocalDevices"
                               THEN WrapOutputsNested(client_[frame[t].self],
                                      frame[t].output_buffers, frame[t].traceback)
                               ELSE WrapOutputs(client_[frame[t].self],
                                      frame[t].output_buffers, frame[t].traceback)]
  /\ UNCHANGED <<registry, fingerprint_, options_, registered, gil, aborted, tbCount>>

\* The caller takes the result; the call's locals are gone.
Return(t) ==
  /\ ~aborted
  /\ frame[t].pc = "returned"
  /\ frame' = [frame EXCEPT ![t] = IdleFrame]
  /\ UNCHANGED <<registry, fingerprint_, options_, registered, gil, aborted, tbCount>>

\* ------------------------------------------------------------- accessors

\* PyExecutable::LocalDevices
LocalDevices(t, self) ==
  /\ ~aborted
  /\ frame[t].pc = "idle"
  /\ gil = t
  /\ self \in live
  /\ frame' = [frame EXCEPT ![t] =
       [IdleFrame EXCEPT !.pc = "returned", !.kind = "LocalDevices", !.self = self,
          !.outputs = [i \in DOMAIN LocalDeviceList |->
                         [client |-> client_[self], device |-> LocalDeviceList[i]]]]]
  /\ UNCHANGED <<registry, fingerprint_, options_, registered, gil, aborted, tbCount>>

\* PyExecutable::HloModules: the engine's answer, forwarded.
HloModules(t, self, status) ==
  /\ ~aborted
  /\ frame[t].pc = "idle"
  /\ gil = t
  /\ self \in live
  /\ frame' = [frame EXCEPT ![t] =
       [IdleFrame EXCEPT !.pc = "returned", !.kind = "HloModules", !.self = self,
          !.status = status,
          !.outputs = IF status = OkStatus THEN <<"hlo">> ELSE <<>>]]
  /\ UNCHANGED <<registry, fingerprint_, options_, registered, gil, aborted, tbCount>>

\* ------------------------------------------------------------- specifications

Init ==
  /\ executables_ = [c \in Clients |-> Null]
  /\ live = {}
  /\ client_ = [e \in Execs |-> NoClient]
  /\ next_ = [e \in Execs |-> Null]
  /\ prev_ = [e \in Execs |-> Null]
  /\ fingerprint_ = [e \in Execs |-> NoFingerprint]
  /\ options_ = [e \in Execs |-> DefaultOptions]
  /\ registered = [c \in Clients |-> <<>>]
  /\ gil = NoThread
  /\ aborted = FALSE
  /\ frame = [t \in Threads |-> IdleFrame]
  /\ tbCount = 0

\* Thread t is between two calls and holds the GIL: it can make a call.
Callable(t) == ~aborted /\ frame[t].pc = "idle" /\ gil = t

\* Every operation, its inputs drawn from the sets of D.
NextOver(D) ==
  \E t \in D.threads :
    \/ GilAcquire(t)
    \/ GilYield(t)
    \/ \E self \in D.execs, c \in D.clients, f \in D.fingerprints :
         PyExecutable_ctor(t, self, c, f)
    \/ \E self \in D.execs : PyExecutable_dtor(t, self)
    \/ Callable(t) /\ \E self \in D.execs, args \in D.direct :
         PjRtExecute_Call(t, self, args)
    \/ Callable(t) /\ \E self \in D.execs, args \in D.wrapped :
         Execute_Call(t, self, args)
    \/ Callable(t) /\ \E self \in D.execs, args \in D.nested :
         ExecuteOnLocalDevices_Call(t, self, args)
    \/ Convert(t)
    \/ \E p \in D.programs : EngineSucceeds(t, p)
    \/ \E code \in D.errors : EngineFails(t, code)
    \/ ScopeExit(t)
    \/ CaptureTraceback(t)
    \/ Wrap(t)
    \/ Return(t)
    \/ \E self \in D.execs : LocalDevices(t, self)
    \/ \E self \in D.execs, st \in {OkStatus} \cup D.errors : HloModules(t, self, st)

\* Two threads against one client: every interleaving of the lock, with
\* one argument list (within MaxArgs and MaxComp) per entry point and an
\* engine that echoes or fails with one code.
Concurrent ==
  [threads |-> Threads, execs |-> Execs, clients |-> {"c1"},
   fingerprints |-> {SomeFingerprint(<<97>>)},
   direct |-> {<<"n1", "n2">>},
   wrapped |-> {<<"h2", "h1">>},
   nested |-> {<<<<"h1", "h2">>, <<"h2">>>>},
   programs |-> {"echo"},
   errors |-> {"INTERNAL"}]

Next == NextOver(Concurrent)
Spec == Init /\ [][Next]_vars

\* One thread, two executable addresses: every argument list within the
\* bounds, every program and every error code.
Sequential ==
  [threads |-> {"t1"}, execs |-> {e \in Execs : e <= 2}, clients |-> {"c1"},
   fingerprints |-> {SomeFingerprint(<<97, 98>>)},
   direct |-> BoundedSeq(Natives, MaxArgs),
   wrapped |-> BoundedSeq(Handles, MaxArgs),
   nested |-> BoundedSeq(BoundedSeq(Handles, MaxArgs), MaxComp),
   programs |-> Programs,
   errors |-> ErrCodes]

NextData == NextOver(Sequential)
SpecData == Init /\ [][NextData]_vars

\* One thread on two clients, with and without a fingerprint: one argument
\* list per entry point, every program and one error code.
Dispatch ==
  [threads |-> {"t1"}, execs |-> {e \in Execs : e <= 2}, clients |-> Clients,
   fingerprints |-> Fingerprints,
   direct |-> {<<"n1">>},
   wrapped |-> {<<"h1", "h1">>},
   nested |-> {<<<<"h2">>, <<>>>>},
   programs |-> Programs,
   errors |-> {"INVALID_ARGUMENT"}]

NextDispatch == NextOver(Dispatch)
SpecDispatch == Init /\ [][NextDispatch]_vars

\* The registry alone: constructions, destructions and the accessors of two
\* threads on two clients.
NextRegistry ==
  \E t \in Threads :
    \/ GilAcquire(t)
    \/ GilYield(t)
    \/ \E self \in Execs, c \in Clients, f \in Fingerprints :
         PyExecutable_ctor(t, self, c, f)
    \/ \E self \in Execs : PyExecutable_dtor(t, self)
    \/ \E self \in Execs : LocalDevices(t, self)
    \/ \E self \in Execs, st \in {OkStatus} \cup ErrCodes : HloModules(t, self, st)
    \/ Return(t)

SpecRegistry == Init /\ [][NextRegistry]_vars

\* Two threads whose callers keep the precondition of lines 33 and 49: a
\* constructor or destructor is called by a thread that holds the GIL.
NextFair ==
  \E t \in Threads :
    \/ GilAcquire(t)
    \/ GilYield(t)
    \/ Callable(t) /\ \E self \in Dispatch.execs, f \in Concurrent.fingerprints :
         PyExecutable_ctor(t, self, "c1", f)
    \/ Callable(t) /\ \E self \in Dispatch.execs : PyExecutable_dtor(t, self)
    \/ Callable(t) /\ \E self \in Dispatch.execs, args \in Concurrent.direct :
         PjRtExecute_Call(t, self, args)
    \/ Callable(t) /\ \E self \in Dispatch.execs, args \in Concurrent.wrapped :
         Execute_Call(t, self, args)
    \/ Callable(t) /\ \E self \in Dispatch.execs, args \in Concurrent.nested :
         ExecuteOnLocalDevices_Call(t, self, args)
    \/ Convert(t)
    \/ \E p \in Concurrent.programs : EngineSucceeds(t, p)
    \/ \E code \in Concurrent.errors : EngineFails(t, code)
    \/ ScopeExit(t)
    \/ CaptureTraceback(t)
    \/ Wrap(t)
    \/ Return(t)

\* The engine call of thread t comes back, one way or the other.
EngineReturns(t) ==
  \/ \E p \in Concurrent.programs : EngineSucceeds(t, p)
  \/ \E code \in Concurrent.errors : EngineFails(t, code)

\* A running thread goes on with its call and with its caller; every engine
\* call comes back; a thread that waits for the GIL gets it if it is free
\* again and again; and the interpreter takes the GIL from a thread that is
\* between two calls again and again.
Fairness ==
  \A t \in Threads :
    /\ WF_vars(Convert(t))
    /\ WF_vars(EngineReturns(t))
    /\ SF_vars(ScopeExit(t))
    /\ WF_vars(CaptureTraceback(t))
    /\ WF_vars(Wrap(t))
    /\ WF_vars(Return(t))
    /\ SF_vars(GilYield(t))

SpecFair == Init /\ [][NextFair]_vars /\ Fairness

\* ------------------------------------------------------------- reading the registry

RECURSIVE WalkNext(_, _)
\* The nodes met from e by following next_, at most fuel of them.
WalkNext(e, fuel) ==
  IF e = Null \/ fuel = 0 THEN <<>>
  ELSE <<e>> \o WalkNext(next_[e], fuel - 1)

RECURSIVE WalkPrev(_, _)
\* The nodes met from e by following prev_, at most fuel of them.
WalkPrev(e, fuel) ==
  IF e = Null \/ fuel = 0 THEN <<>>
  ELSE <<e>> \o WalkPrev(prev_[e], fuel - 1)

\* The client's list read from its head pointer. One step more than there
\* are addresses: a cycle shows as a repeated node.
Registry(c) == WalkNext(executables_[c], MaxExecs + 1)

LiveOf(c) == {e \in live : client_[e] = c}

\* The tail-most nodes of client c: live, with no successor.
Tails(c) == {e \in LiveOf(c) : next_[e] = Null}

DtorReturned(t) == frame[t].pc = "returned" /\ frame[t].kind = "dtor"
CtorReturned(t) == frame[t].pc = "returned" /\ frame[t].kind = "ctor"

\* ------------------------------------------------------------- claims

\* C1: in every reachable state, the nodes reachable from a client's head
\* pointer by next_ are exactly the live executables of that client, each met
\* once; so no destroyed executable is reachable.
C1_RegistryIsExactlyLive ==
  \A c \in Clients :
    /\ NoDuplicates(Registry(c))
    /\ Range(Registry(c)) = LiveOf(c)

\* C1 witness: a destructor has just run and a client keeps two executables.
C1_Witness ==
  \E t \in Threads :
    /\ DtorReturned(t)
    /\ frame[t].self \notin live
    /\ \E c \in Clients : Len(Registry(c)) = 2 /\ Len(registered[c]) = 2

\* C2: the list read head to tail is the creation order of the client's
\* live executables reversed (most recent first); as the creation order only
\* loses the destroyed one, the others keep their relative order whatever
\* position it had.
C2_MostRecentFirst ==
  \A c \in Clients : Registry(c) = Reverse(registered[c])

\* C2 witness: the destroyed executable sat in the middle of a list of three.
C2_Witness ==
  \E t \in Threads :
    /\ DtorReturned(t)
    /\ frame[t].at = "middle"
    /\ \E c \in Clients : Len(Registry(c)) = 2 /\ Registry(c) = Reverse(registered[c])

\* C3: the links of live nodes agree (x.next.prev = x, x.prev.next = x), a
\* link of a live node is null or a live node of the same client, the head
\* has no predecessor, and reading by prev_ from the tail-most node gives the
\* list reversed.
C3_LinksConsistent ==
  /\ \A x \in live :
       /\ next_[x] # Null => next_[x] \in LiveOf(client_[x]) /\ prev_[next_[x]] = x
       /\ prev_[x] # Null => prev_[x] \in LiveOf(client_[x]) /\ next_[prev_[x]] = x
  /\ \A c \in Clients :
       /\ LiveOf(c) # {} => Cardinality(Tails(c)) = 1
       /\ \A e \in Tails(c) : WalkPrev(e, MaxExecs + 1) = Reverse(Registry(c))

\* C3 witness: the head of a list of three was destroyed, and the two that
\* remain read the same from both ends.
C3_Witness ==
  \E t \in Threads, c \in Clients :
    /\ DtorReturned(t)
    /\ frame[t].at = "head"
    /\ Len(Registry(c)) = 2
    /\ \E e \in Tails(c) : Len(WalkPrev(e, MaxExecs + 1)) = 2

\* Thread t is inside an execution entry point.
InExecution(t) == frame[t].pc # "idle" /\ frame[t].kind \in ExecKinds

\* The step is thread t entering the release scope of an entry point.
EntersReleaseScope(t) ==
  /\ frame[t].pc = "idle"
  /\ frame'[t].pc \in {"convert", "engine"}
  /\ frame'[t].kind \in ExecKinds
  /\ gil = t
  /\ gil' = NoThread

\* The step is thread t leaving the release scope.
LeavesReleaseScope(t) ==
  /\ frame[t].pc = "scope_exit"
  /\ frame'[t].pc \in {"traceback", "returned"}
  /\ gil = NoThread
  /\ gil' = t

\* The step is a step of thread t inside the core: its frame changes.
CoreStep(t) == frame'[t] # frame[t]

\* C4: in the three entry points the caller does not hold the lock while the
\* engine call is in progress and holds it when it captures the traceback and
\* wraps the outputs; a step of the core changes the lock only on entering
\* and on leaving the release scope of an entry point, the scope the engine
\* call is in: constructor, destructor, LocalDevices and HloModules run with
\* the lock held and leave it held.
C4_LockReleasedOnlyAroundEngineCall ==
  /\ [](\A t \in Threads :
          /\ frame[t].pc = "engine" => gil # t
          /\ frame[t].pc \in {"traceback", "wrap"} => gil = t
          /\ InExecution(t) /\ frame[t].pc = "returned" => gil = t)
  /\ [][\A t \in Threads :
          CoreStep(t) =>
            /\ gil' # gil => EntersReleaseScope(t) \/ LeavesReleaseScope(t)
            /\ frame'[t].kind \in {"ctor", "dtor", "LocalDevices", "HloModules"}
                 => gil = t /\ gil' = t]_vars

\* C4 witness: one thread is in the engine call without the lock while the
\* other, holding it, wraps the outputs of its own call.
C4_Witness ==
  /\ frame["t1"].pc = "engine"
  /\ frame["t2"].pc = "wrap"
  /\ gil = "t2"

\* C5 (as claimed): in Execute and ExecuteOnLocalDevices the handles are
\* converted while the calling thread holds the lock.
C5_ConversionUnderLock ==
  \A t \in Threads : frame[t].pc = "convert" => gil = t

\* C6: when the engine fails, the call returns the engine's status, no output
\* and no traceback, its executable still in its client's list; and no step
\* of a call whose engine has failed changes the registry or captures a
\* traceback.
C6_FailureReturnsStatusOnly ==
  /\ [](\A t \in Threads :
          InExecution(t) /\ frame[t].engine_status \in ErrCodes =>
            /\ frame[t].pc \in {"scope_exit", "returned"}
            /\ frame[t].pc = "returned" => frame[t].status = frame[t].engine_status
            /\ frame[t].outputs = <<>>
            /\ frame[t].traceback = NoTraceback
            /\ frame[t].self \in Range(Registry(client_[frame[t].self])))
  /\ [][\A t \in Threads :
          CoreStep(t) /\ frame[t].kind \in ExecKinds /\ frame[t].engine_status \in ErrCodes
            => /\ UNCHANGED <<registry, registered, tbCount>>
               /\ frame'[t].pc = "idle" => frame[t].pc = "returned"]_vars

\* C6 witness: a call on an executable that sits with another in the
\* registry has returned the engine's INVALID_ARGUMENT.
C6_Witness ==
  \E t \in Threads :
    /\ InExecution(t)
    /\ frame[t].pc = "returned"
    /\ frame[t].engine_status = "INVALID_ARGUMENT"
    /\ frame[t].status = "INVALID_ARGUMENT"
    /\ Len(Registry("c1")) = 2

\* The native buffer the i-th argument of a flat call stands for.
NativeOfArg(f, i) == IF f.kind = "PjRtExecute" THEN f.args[i] ELSE buffer(f.args[i])

\* C7: a successful PjRtExecute or Execute returns as many handles as the
\* engine returned buffers, the i-th wrapping the i-th; when the engine
\* echoed its inputs, that is one handle per argument, in argument order,
\* wrapping the native buffer the argument stands for.
C7_FlatOutputsMirrorEngine ==
  \A t \in Threads :
    LET f == frame[t] IN
    f.pc = "returned" /\ f.kind \in {"PjRtExecute", "Execute"} /\ f.engine_status = OkStatus =>
      /\ f.status = OkStatus
      /\ Len(f.outputs) = Len(f.output_buffers)
      /\ \A i \in 1..Len(f.output_buffers) : f.outputs[i].buffer = f.output_buffers[i]
      /\ f.output_buffers = f.arg_buffers =>
           /\ Len(f.outputs) = Len(f.args)
           /\ \A i \in 1..Len(f.args) : f.outputs[i].buffer = NativeOfArg(f, i)

\* C7 witness: Execute on two different handles, echoed: two outputs in
\* argument order.
C7_Witness ==
  \E t \in Threads :
    LET f == frame[t] IN
    /\ f.pc = "returned" /\ f.kind = "Execute" /\ f.engine_status = OkStatus
    /\ f.args = <<"h2", "h1">>
    /\ f.output_buffers = f.arg_buffers
    /\ Len(f.outputs) = 2
    /\ f.outputs[1].buffer = "n2" /\ f.outputs[2].buffer = "n1"

\* C8: a successful ExecuteOnLocalDevices returns one inner sequence per
\* output group of the engine, in the engine's order, the c-th as long as the
\* c-th group and wrapping its buffers in order; when the engine echoed, the
\* result has the group sizes and the order of the arguments.
C8_NestedOutputsMirrorEngine ==
  \A t \in Threads :
    LET f == frame[t] IN
    f.pc = "returned" /\ f.kind = "ExecuteOnLocalDevices" /\ f.engine_status = OkStatus =>
      /\ f.status = OkStatus
      /\ Len(f.outputs) = Len(f.output_buffers)
      /\ \A c \in 1..Len(f.output_buffers) :
           /\ Len(f.outputs[c]) = Len(f.output_buffers[c])
           /\ \A i \in 1..Len(f.output_buffers[c]) :
                f.outputs[c][i].buffer = f.output_buffers[c][i]
      /\ f.output_buffers = f.arg_buffers =>
           /\ Len(f.outputs) = Len(f.args)
           /\ \A c \in 1..Len(f.args) :
                /\ Len(f.outputs[c]) = Len(f.args[c])
                /\ \A i \in 1..Len(f.args[c]) :
                     f.outputs[c][i].buffer = buffer(f.args[c][i])

\* C8 witness: two computations with argument groups of sizes 2 and 1,
\* echoed: output groups of sizes 2 and 1.
C8_Witness ==
  \E t \in Threads :
    LET f == frame[t] IN
    /\ f.pc = "returned" /\ f.kind = "ExecuteOnLocalDevices" /\ f.engine_status = OkStatus
    /\ f.args = <<<<"h2", "h1">>, <<"h2">>>>
    /\ f.output_buffers = f.arg_buffers
    /\ Len(f.outputs) = 2 /\ Len(f.outputs[1]) = 2 /\ Len(f.outputs[2]) = 1
    /\ f.outputs[1][1].buffer = "n2" /\ f.outputs[1][2].buffer = "n1"

\* Every handle a call has produced so far.
OutputHandles(f) ==
  IF f.kind = "ExecuteOnLocalDevices"
  THEN UNION {Range(f.outputs[c]) : c \in DOMAIN f.outputs}
  ELSE Range(f.outputs)

\* The call of thread t holds a captured traceback.
HasTraceback(t) == InExecution(t) /\ frame[t].traceback # NoTraceback

\* C9: a call has no traceback until its engine call has returned with
\* success, captures one then, in a single step, and never another; every
\* handle it returns, in every computation, carries that token; and two calls
\* hold different tokens.
C9_OneTracebackPerCall ==
  /\ [](\A t \in Threads :
          InExecution(t) =>
            /\ frame[t].pc \in {"convert", "engine", "scope_exit", "traceback"}
                 => frame[t].traceback = NoTraceback /\ frame[t].outputs = <<>>
            /\ frame[t].pc = "wrap" \/ (frame[t].pc = "returned" /\ frame[t].engine_status = OkStatus)
                 => frame[t].traceback # NoTraceback
            /\ \A h \in OutputHandles(frame[t]) : h.traceback = frame[t].traceback
            /\ \A u \in Threads \ {t} :
                 HasTraceback(t) /\ HasTraceback(u) => frame[t].traceback # frame[u].traceback)
  /\ [][\A t \in Threads :
          CoreStep(t) /\ frame'[t].traceback # frame[t].traceback /\ frame'[t].pc # "idle" =>
            /\ frame[t].pc = "traceback"
            /\ frame[t].engine_status = OkStatus
            /\ frame[t].traceback = NoTraceback
            /\ tbCount' = tbCount + 1
            /\ frame'[t].traceback = tbCount']_vars
  /\ [][tbCount' # tbCount =>
          \E t \in Threads : frame[t].pc = "traceback" /\ frame'[t].pc = "wrap"]_vars

\* C9 witness: the second successful call of a behaviour has returned three
\* handles in two computations, all with the second token.
C9_Witness ==
  \E t \in Threads :
    LET f == frame[t] IN
    /\ f.pc = "returned" /\ f.kind = "ExecuteOnLocalDevices" /\ f.engine_status = OkStatus
    /\ Len(f.outputs) = 2 /\ Len(f.outputs[1]) = 2 /\ Len(f.outputs[2]) = 1
    /\ f.traceback = 2
    /\ \A h \in OutputHandles(f) : h.traceback = 2

\* The list of client c is a doubly-linked list of exactly its live executables.
ValidList(c) ==
  LET list == Registry(c) IN
  /\ NoDuplicates(list)
  /\ Range(list) = LiveOf(c)
  /\ \A i \in 1..Len(list) : prev_[list[i]] = (IF i = 1 THEN Null ELSE list[i - 1])

\* The step is thread t's constructor or destructor.
Mutates(t) == CoreStep(t) /\ frame'[t].kind \in {"ctor", "dtor"}

\* C10: a constructor's and a destructor's registration runs on a thread that
\* holds the lock before and after it; the registry changes in no other step,
\* and in such a step no other thread moves; and every client's list is a
\* valid doubly-linked list of its live executables in every state, whatever
\* the other threads are in the middle of.
C10_MutationsUnderLock ==
  /\ [](\A c \in Clients : ValidList(c))
  /\ [][\A t \in Threads : Mutates(t) => gil = t /\ gil' = t]_vars
  /\ [][registry' # registry =>
          \E t \in Threads :
            /\ Mutates(t)
            /\ \A u \in Threads \ {t} : frame'[u] = frame[u]]_vars

\* C10 witness: while one thread is in the engine call with the lock
\* released, the other has destroyed the middle one of three executables.
C10_Witness ==
  \E t, u \in Threads :
    /\ frame[u].pc = "engine"
    /\ gil = t
    /\ DtorReturned(t)
    /\ frame[t].at = "middle"
    /\ Len(Registry("c1")) = 2

\* options_ of executable e as its fingerprint_ determines it.
OptionsFollowFingerprint(e) ==
  /\ options_[e].untuple_result = TRUE
  /\ fingerprint_[e].has => options_[e].launch_id = Fingerprint32(fingerprint_[e].value)
  /\ ~fingerprint_[e].has => options_[e].launch_id = DefaultLaunchId
  /\ options_[e].launch_id # DefaultLaunchId <=> fingerprint_[e].has

\* C11: every live executable has untuple_result set and a launch_id
\* overridden exactly when it holds a fingerprint (then its hash, otherwise
\* the value of a default ExecuteOptions); and no step of any operation, on
\* this executable or another, changes the options or the fingerprint of an
\* executable that is live before and after it.
C11_OptionsFixedAtConstruction ==
  /\ [](\A e \in live : OptionsFollowFingerprint(e))
  /\ [][\A e \in live \cap live' :
          options_'[e] = options_[e] /\ fingerprint_'[e] = fingerprint_[e]]_vars

\* C11 witness: a call on an executable built without a fingerprint has
\* failed, next to a live executable built with one.
C11_Witness ==
  \E t \in Threads, e \in live :
    /\ InExecution(t)
    /\ frame[t].pc = "returned"
    /\ frame[t].engine_status \in ErrCodes
    /\ ~fingerprint_[frame[t].self].has
    /\ options_[frame[t].self] = [untuple_result |-> TRUE, launch_id |-> DefaultLaunchId]
    /\ fingerprint_[e].has
    /\ options_[e].launch_id # DefaultLaunchId

\* The values of a 32-bit unsigned integer, as two limbs.
IsWord32(w) == Len(w) = 2 /\ \A i \in 1..2 : w[i] \in 0..(Two16 - 1)

\* C12: two live executables that hold the same fingerprint have the same
\* launch_id, whatever their clients, their addresses and the registry they
\* were constructed into; a launch_id is a 32-bit unsigned value; and an
\* executable without a fingerprint keeps the launch_id of a default
\* ExecuteOptions.
C12_LaunchIdFromFingerprintOnly ==
  /\ \A e1, e2 \in live :
       fingerprint_[e1] = fingerprint_[e2] => options_[e1].launch_id = options_[e2].launch_id
  /\ \A e \in live :
       /\ IsWord32(options_[e].launch_id)
       /\ ~fingerprint_[e].has => options_[e].launch_id = DefaultLaunchId

\* C12 witness: two executables of different clients, one alone in its
\* client's list and one registered behind a third, share a fingerprint and
\* a launch_id; the third, with another fingerprint, has another launch_id.
C12_Witness ==
  \E e1, e2, e3 \in live :
    /\ client_[e1] # client_[e2]
    /\ fingerprint_[e1].has
    /\ fingerprint_[e1] = fingerprint_[e2]
    /\ options_[e1].launch_id = options_[e2].launch_id
    /\ fingerprint_[e3].has
    /\ fingerprint_[e3] # fingerprint_[e1]
    /\ options_[e3].launch_id # options_[e1].launch_id
    /\ registered[client_[e2]] = <<e3, e2>>
    /\ registered[client_[e1]] = <<e1>>

\* The call of thread t takes handles and has converted them.
Converted(t) ==
  /\ frame[t].kind \in {"Execute", "ExecuteOnLocalDevices"}
  /\ frame[t].pc \in {"engine", "scope_exit", "traceback", "wrap", "returned"}

\* bufs is the native buffers of handles, position by position.
SamePointers(bufs, handles) ==
  /\ Len(bufs) = Len(handles)
  /\ \A i \in 1..Len(handles) : bufs[i] = buffer(handles[i])

\* C13: from the engine call on, the arg_buffers of Execute are the native
\* buffers of its handles position by position, a repeated handle giving
\* its buffer again; those of ExecuteOnLocalDevices are that per group, with
\* as many groups, each of the size of its argument group; and no step of
\* the call changes its handles or, after the conversion, what the engine
\* was given.
C13_EngineGetsWrappedPointers ==
  /\ [](\A t \in Threads :
          Converted(t) =>
            IF frame[t].kind = "Execute"
            THEN SamePointers(frame[t].arg_buffers, frame[t].args)
            ELSE /\ Len(frame[t].arg_buffers) = Len(frame[t].args)
                 /\ \A c \in 1..Len(frame[t].args) :
                      SamePointers(frame[t].arg_buffers[c], frame[t].args[c]))
  /\ [][\A t \in Threads :
          CoreStep(t) /\ frame[t].kind \in {"Execute", "ExecuteOnLocalDevices"}
                      /\ frame'[t].pc # "idle" =>
            /\ frame'[t].args = frame[t].args
            /\ Converted(t) => frame'[t].arg_buffers = frame[t].arg_buffers]_vars

\* C13 witness: the engine has answered an ExecuteOnLocalDevices whose first
\* group holds one handle twice.
C13_Witness ==
  \E t \in Threads :
    /\ frame[t].kind = "ExecuteOnLocalDevices"
    /\ frame[t].pc = "scope_exit"
    /\ frame[t].args = <<<<"h2", "h2">>, <<"h1">>>>
    /\ frame[t].arg_buffers = <<<<"n2", "n2">>, <<"n1">>>>

\* C14: the step that brings an entry point to its return, after the output
\* loop or straight from the release scope when the engine failed, ends with
\* the calling thread holding the GIL; the thread keeps it from the scope
\* exit on; and the caller takes the result holding it.
C14_ReturnHoldsLock ==
  /\ [][\A t \in Threads :
          frame[t].kind \in ExecKinds /\ frame[t].pc # "returned" /\ frame'[t].pc = "returned"
            => gil' = t]_vars
  /\ [][\A t \in Threads :
          frame[t].kind \in ExecKinds /\ frame[t].pc \in {"traceback", "wrap", "returned"}
            => gil' = gil]_vars
  /\ [][\A t \in Threads :
          frame[t].kind \in ExecKinds /\ frame[t].pc = "returned" /\ frame'[t].pc = "idle"
            => gil = t /\ gil' = t]_vars

\* C14 witness: a call has returned the engine's error with the GIL in hand
\* while the other thread, its engine call over, waits for the GIL.
C14_Witness ==
  \E t, u \in Threads :
    /\ frame[t].kind \in ExecKinds
    /\ frame[t].pc = "returned"
    /\ frame[t].status \in ErrCodes
    /\ gil = t
    /\ frame[u].pc = "scope_exit"

\* The step is thread t's destructor of the object at self.
Destroys(t, self) ==
  /\ CoreStep(t)
  /\ frame'[t].kind = "dtor"
  /\ frame'[t].self = self

\* C15: a destructor step on the head of its client's list moves the head
\* pointer to the object's next_ (null when it was alone), and that node, if
\* any, ends with no prev_; a destructor step on any other object leaves
\* every head pointer as it was; and in every state a head that is not null
\* has no prev_.
C15_HeadFollowsUnregister ==
  /\ [](\A c \in Clients :
          executables_[c] # Null => prev_[executables_[c]] = Null)
  /\ [][\A t \in Threads, self \in Execs :
          Destroys(t, self) =>
            LET c == client_[self] IN
            IF executables_[c] = self
            THEN /\ executables_'[c] = next_[self]
                 /\ next_[self] # Null => prev_'[next_[self]] = Null
                 /\ \A b \in Clients \ {c} : executables_'[b] = executables_[b]
            ELSE executables_' = executables_]_vars

\* C15 witness: the head of a list of two was destroyed; each client is
\* left with a list of one, whose head has no prev_.
C15_Witness ==
  \E t \in Threads :
    /\ DtorReturned(t)
    /\ frame[t].at = "head"
    /\ \A c \in Clients :
         /\ Len(Registry(c)) = 1
         /\ prev_[executables_[c]] = Null

\* The step belongs to an execution entry point or an accessor of thread t,
\* or hands a result to the caller.
ReadOnlyStep(t) ==
  /\ CoreStep(t)
  /\ \/ frame'[t].kind \in ExecKinds \cup {"LocalDevices", "HloModules"}
     \/ frame'[t].pc = "idle"

\* The client whose list thread t's constructor or destructor step works on.
MutatedClient(t) ==
  IF frame'[t].kind = "ctor" THEN client_'[frame'[t].self] ELSE client_[frame'[t].self]

\* C16: a step of PjRtExecute, Execute, ExecuteOnLocalDevices, LocalDevices
\* or HloModules, whether the engine succeeds or fails, and the return to the
\* caller, change no head pointer, no next_ or prev_, no membership; and a
\* constructor or destructor step on an executable of one client leaves the
\* head pointer and the members of every other client, with their links, as
\* they were.
C16_RegistryChangesOnlyInCtorDtor ==
  /\ [][\A t \in Threads : ReadOnlyStep(t) => UNCHANGED registry]_vars
  /\ [][\A t \in Threads :
          Mutates(t) =>
            \A b \in Clients \ {MutatedClient(t)} :
              /\ executables_'[b] = executables_[b]
              /\ \A e \in LiveOf(b) :
                   /\ e \in live'
                   /\ client_'[e] = b
                   /\ next_'[e] = next_[e]
                   /\ prev_'[e] = prev_[e]]_vars

\* C16 witness: a call on the one executable of c1 has returned its outputs
\* while c2 holds one of its own.
C16_Witness ==
  \E t \in Threads :
    /\ InExecution(t)
    /\ frame[t].pc = "returned"
    /\ frame[t].engine_status = OkStatus
    /\ frame[t].outputs # <<>>
    /\ Registry("c1") = <<frame[t].self>>
    /\ Len(Registry("c2")) = 1

\* handles has one handle per buffer of bufs, the i-th owning the i-th.
OneHandlePerBuffer(handles, bufs) ==
  /\ Len(handles) = Len(bufs)
  /\ \A i \in 1..Len(bufs) : handles[i].buffer = bufs[i]

\* The step is thread t's output loop.
Wraps(t) == frame[t].pc = "wrap" /\ frame'[t].pc = "returned"

\* C17: a call holds no handle until its output loop runs; after it, the
\* result has one handle per native output of the engine, position by
\* position and group by group, so that none is dropped and none wrapped
\* twice, every handle carrying the client of the executable; and the loop
\* gives its handles the traceback captured last, the one of this call, so
\* that they are handles of this call only.
C17_OutputsFreshlyOwned ==
  /\ [](\A t \in Threads :
          LET f == frame[t] IN
          InExecution(t) =>
            /\ f.pc # "returned" => f.outputs = <<>>
            /\ f.pc = "returned" /\ f.engine_status = OkStatus =>
                 /\ IF f.kind = "ExecuteOnLocalDevices"
                    THEN /\ Len(f.outputs) = Len(f.output_buffers)
                         /\ \A c \in 1..Len(f.output_buffers) :
                              OneHandlePerBuffer(f.outputs[c], f.output_buffers[c])
                    ELSE OneHandlePerBuffer(f.outputs, f.output_buffers)
                 /\ \A h \in OutputHandles(f) :
                      h.client \in Clients /\ h.client = client_[f.self])
  /\ [][\A t \in Threads :
          Wraps(t) =>
            /\ frame[t].traceback = tbCount
            /\ tbCount' = tbCount
            /\ \A h \in OutputHandles(frame'[t]) : h.traceback = tbCount]_vars

\* C17 witness: the second call to succeed has returned three handles in two
\* groups, all with the client of its executable, while the call of the
\* other thread is still in the engine.
C17_Witness ==
  \E t, u \in Threads :
    LET f == frame[t] IN
    /\ f.pc = "returned" /\ f.kind = "ExecuteOnLocalDevices" /\ f.engine_status = OkStatus
    /\ f.traceback = 2
    /\ Len(f.outputs[1]) = 2 /\ Len(f.outputs[2]) = 1
    /\ \A h \in OutputHandles(f) : h.client = "c1" /\ client_[f.self] = "c1"
    /\ frame[u].pc = "engine"

\* Thread t is between its scope exit and the end of its output loop.
InLockedSection(t) == frame[t].pc \in {"traceback", "wrap"}

\* The step is a registration, an unregistration, a traceback capture or an
\* output loop of thread t.
LockedStep(t) == CoreStep(t) /\ (Mutates(t) \/ InLockedSection(t))

\* C18: at most one thread is between its scope exit and the end of its
\* output loop; and when a thread registers, unregisters, captures its
\* traceback or wraps its outputs, it holds the GIL, no other thread moves
\* in that step, and no other thread is in the middle of such a section.
\* Calls in the engine are under no such limit: see the witness.
C18_LockedStepsExclusive ==
  /\ [](Cardinality({t \in Threads : InLockedSection(t)}) <= 1)
  /\ [][\A t \in Threads :
          LockedStep(t) =>
            /\ gil = t
            /\ \A u \in Threads \ {t} :
                 /\ frame'[u] = frame[u]
                 /\ ~InLockedSection(u)
                 /\ frame[u].pc # "returned"]_vars

\* C18 witness: two calls on different executables are both in the engine
\* call, and no thread holds the GIL.
C18_Witness ==
  /\ \A t \in Threads : frame[t].pc = "engine" /\ frame[t].kind \in ExecKinds
  /\ frame["t1"].self # frame["t2"].self
  /\ gil = NoThread

\* Thread t has started an execution call that has not returned yet.
Started(t) ==
  /\ frame[t].kind \in ExecKinds
  /\ frame[t].pc \in {"convert", "engine", "scope_exit", "traceback", "wrap"}

\* The call of thread t has returned all its outputs or the engine's error.
Finished(t) ==
  /\ frame[t].kind \in ExecKinds
  /\ frame[t].pc = "returned"
  /\ \/ /\ frame[t].status = OkStatus
        /\ Len(frame[t].outputs) = Len(frame[t].output_buffers)
     \/ /\ frame[t].status \in ErrCodes
        /\ frame[t].status = frame[t].engine_status

\* C19: with the fairness of SpecFair, every execution call that has started
\* returns, with one output structure as long as the engine's or with the
\* engine's error; and as long as a thread is in a call some step can be
\* taken, a thread in the engine call never being the holder of the GIL.
C19_StartedCallsReturn ==
  /\ \A t \in Threads : Started(t) ~> Finished(t)
  /\ []((\E t \in Threads : frame[t].pc # "idle") => ENABLED <<NextFair>>_vars)
  /\ [](\A t \in Threads : frame[t].pc \in {"convert", "engine"} => gil # t)

\* C19 witness: the second call to succeed has returned all its outputs
\* while the call of the other thread, its engine call over, waits for the
\* GIL.
C19_Witness ==
  \E t, u \in Threads :
    /\ Finished(t)
    /\ frame[t].status = OkStatus
    /\ frame[t].traceback = 2
    /\ frame[u].pc = "scope_exit"
    /\ gil = t

====
